---- MODULE Spec2Model ----
(***************************************************************************)
(* Food bank location optimisation (src/agents/location_agent/index.py).   *)
(*                                                                         *)
(* Units.  Money is in dollars.  Coordinates are points on one meridian,   *)
(* measured in tenths of a mile, so the geodesic distance of two points is *)
(* the absolute difference of their positions and 1.5 miles is 15.         *)
(* Ratios (poverty_rate, vehicle_access_rate) are in percent.  Efficiency  *)
(* scores are scaled by 20000 and the scorer's expected impact by 10, so   *)
(* that every quantity the code computes in floating point is an integer   *)
(* here (need and population are multiples of 5).                          *)
(***************************************************************************)
EXTENDS Integers, Sequences, FiniteSets, TLC

VARIABLES
    events,              \* streaming run: the updates sent to stdout, in order
    collection,          \* analyze_domain: the domain's collection of blocks
    statistics,          \* analyze_domain: the statistics it returns
    entry,               \* public operation that was called
    cells,               \* the cell list handed to the operation
    budget,              \* request.budget / budget argument
    max_locations,
    min_distance,
    pc,                  \* position in the running operation
    warehouses,          \* WarehouseLocation list (food_banks_served is mutated)
    covered_cells,       \* optimize_within_warehouse_coverage: geoid -> warehouse index
    pool,                \* `cells` argument of OptimizationAgent.optimize
    optBudget,           \* `budget` argument of OptimizationAgent.optimize (whole dollars)
    scored_cells,
    selected_locations,
    remaining_budget,
    used_cells,
    made_progress,
    iteration,
    idx,                 \* loop variable i of the for loop of optimize (1-based)
    charged,             \* history: total_cost deducted for each selected location
    optResult,           \* what optimize_within_warehouse_coverage returned
    val,                 \* local variables of ValidationAgent.validate
    vin,                 \* arguments of the running validate call
    firstVal,            \* return value of the first validate call
    result               \* OptimizationResult of optimize_locations

vars ==
    <<events, collection, statistics, entry, cells, budget, max_locations, min_distance, pc, warehouses,
      covered_cells, pool, optBudget, scored_cells, selected_locations,
      remaining_budget, used_cells, made_progress, iteration, idx, charged,
      optResult, val, vin, firstVal, result>>

(***************************** bounds *************************************)
MaxCells == 5

MaxBlocks == 3

(************************ program constants *******************************)
MinRoundBudget == 50000
SustainMonths == 12
FallbackMonths == 6
WarehouseMonths == 8
CoverageRadius == 15
WarehouseServiceRadius == 60
MinCellsCovered == 5
MaxWarehouseCandidates == 6
MaxWarehouses == 4
WarehouseBudgetFloor == 200000
MaxWorkers == 8

(***************************** helpers ************************************)
Min(a, b) == IF a <= b THEN a ELSE b

Max(a, b) == IF a >= b THEN a ELSE b

Abs(a) == IF a >= 0 THEN a ELSE -a

Range(s) == {s[j] : j \in 1..Len(s)}

RECURSIVE SumSeq(_)
SumSeq(s) ==
    IF Len(s) = 0 THEN 0 ELSE s[1] + SumSeq(Tail(s))

RECURSIVE Concat(_)
Concat(ss) ==
    IF Len(ss) = 0 THEN <<>> ELSE ss[1] \o Concat(Tail(ss))

RECURSIVE Perms(_)
Perms(S) ==
    IF S = {} THEN {<<>>}
    ELSE UNION {{<<x>> \o p : p \in Perms(S \ {x})} : x \in S}

\* geopy.distance.geodesic(a, b).miles, on one meridian, in tenths of a mile
Distance(a, b) == Abs(a - b)

(*************************** the scorer ***********************************)
\* variant: the poverty term lowers the weighted score instead of raising it
EfficiencyPovertyPenalty(cell) ==
    10 * cell.need + 60 * (100 - cell.vehicle) - 40 * cell.poverty

\* 20000 * (0.5 * need / 1000 + 0.3 * (1 - vehicle_access_rate) + 0.2 * poverty_rate)
Efficiency(cell) ==
    10 * cell.need + 60 * (100 - cell.vehicle) + 40 * cell.poverty

\* 10 * min(need * 0.4, population * 0.3)
ExpectedPeopleServed10(cell) == Min(4 * cell.need, 3 * cell.population)

\* variant: the scale factor of the setup cost is not capped
SetupCostUncapped(cell) == 80000 + 5 * ExpectedPeopleServed10(cell)

SetupCost(cell) == 80000 + Min(170000, 5 * ExpectedPeopleServed10(cell))

OperationalCost(cell) == 8000 + Min(17000, ExpectedPeopleServed10(cell) \div 5)

ScoreCell(cell) ==
    [cell |-> cell,
     efficiency |-> Efficiency(cell),
     setup_cost |-> SetupCost(cell),
     operational_cost |-> OperationalCost(cell),
     impact10 |-> ExpectedPeopleServed10(cell)]

\* the FoodBankLocation optimize builds for a selected candidate
FoodBankLocation(scored_cell) ==
    [geoid |-> scored_cell.cell.geoid,
     pos |-> scored_cell.cell.pos,
     expected_impact |-> scored_cell.impact10 \div 10,
     coverage_radius |-> CoverageRadius,
     efficiency_score |-> scored_cell.efficiency,
     setup_cost |-> scored_cell.setup_cost,
     operational_cost_monthly |-> scored_cell.operational_cost]

\* _score_cells_chunk: cells without population yield no candidate
ScoreCellsChunk(chunk) ==
    LET keep == SelectSeq(chunk, LAMBDA c : c.population > 0)
    IN  [j \in 1..Len(keep) |-> ScoreCell(keep[j])]

\* cell_chunks = [cells[i:i + chunk_size] for i in range(0, len(cells), chunk_size)]
CellChunks(cs, num_workers) ==
    LET chunk_size == Max(1, Len(cs) \div num_workers)
        n == (Len(cs) + chunk_size - 1) \div chunk_size
    IN  [k \in 1..n |->
            SubSeq(cs, (k - 1) * chunk_size + 1, Min(k * chunk_size, Len(cs)))]

\* a stable sort by descending efficiency
RECURSIVE SortByEfficiency(_)
SortByEfficiency(s) ==
    IF Len(s) = 0 THEN <<>>
    ELSE LET t == SortByEfficiency(SubSeq(s, 1, Len(s) - 1))
             x == s[Len(s)]
             k == Cardinality({j \in 1..Len(t) : t[j].efficiency >= x.efficiency})
         IN  SubSeq(t, 1, k) \o <<x>> \o SubSeq(t, k + 1, Len(t))

\* the orders in which as_completed can deliver the chunks; when no two
\* candidates tie on efficiency the order cannot show in the sorted list
CompletionOrders(chunks) ==
    LET all == Concat([k \in 1..Len(chunks) |-> ScoreCellsChunk(chunks[k])])
        ties == \E a, b \in 1..Len(all) : a # b /\ all[a].efficiency = all[b].efficiency
    IN  IF ties THEN Perms(1..Len(chunks))
        ELSE {[k \in 1..Len(chunks) |-> k]}

\* scored_cells.extend(future.result()) in completion order
GatherScores(chunks, order) ==
    Concat([k \in 1..Len(order) |-> ScoreCellsChunk(chunks[order[k]])])

\* the two candidates have the same inputs of the efficiency formula, and so
\* the same float efficiency
SameScoreInputs(a, b) ==
    /\ a.cell.need = b.cell.need
    /\ a.cell.vehicle = b.cell.vehicle
    /\ a.cell.poverty = b.cell.poverty

\* scored_cells.sort(key=efficiency, reverse=True): stable and descending on
\* the float efficiencies.  Efficiencies that differ here differ in the same
\* direction as floats; candidates with the same inputs have equal floats and
\* keep their order; candidates with different inputs and the same exact
\* score have floats that can differ in the last digits, in a direction
\* that the rounding of the float sum decides: both orders are allowed
EfficiencySorts(s) ==
    IF \A a, b \in 1..Len(s) :
           s[a].efficiency = s[b].efficiency => SameScoreInputs(s[a], s[b])
    THEN {SortByEfficiency(s)}
    ELSE {[k \in 1..Len(s) |-> s[p[k]]] :
            p \in {q \in Perms(1..Len(s)) :
                     \A j, k \in 1..Len(s) :
                         j < k =>
                             \/ s[q[j]].efficiency > s[q[k]].efficiency
                             \/ /\ s[q[j]].efficiency = s[q[k]].efficiency
                                /\ SameScoreInputs(s[q[j]], s[q[k]]) => q[j] < q[k]}}


(********************* strategic warehouses (first tier) ******************)
\* sorted(cells, key=need, reverse=True): stable, descending
RECURSIVE SortByNeed(_)
SortByNeed(s) ==
    IF Len(s) = 0 THEN <<>>
    ELSE LET t == SortByNeed(SubSeq(s, 1, Len(s) - 1))
             x == s[Len(s)]
             k == Cardinality({j \in 1..Len(t) : t[j].need >= x.need})
         IN  SubSeq(t, 1, k) \o <<x>> \o SubSeq(t, k + 1, Len(t))

StrategicCandidate(cell, cs) ==
    LET within == SelectSeq(cs, LAMBDA o : Distance(cell.pos, o.pos) <= WarehouseServiceRadius)
    IN  [cell |-> cell,
         coverage_count |-> Len(within),
         total_need_served |-> SumSeq([j \in 1..Len(within) |-> within[j].need]),
         total_population_served |-> SumSeq([j \in 1..Len(within) |-> within[j].population]),
         service_radius |-> WarehouseServiceRadius]

\* the loop over viable_cells of _identify_strategic_warehouse_locations;
\* 10 * distance < 7 * radius is distance < warehouse_service_radius * 0.7
RECURSIVE IdentifyLoop(_, _, _)
IdentifyLoop(viable, cs, candidates) ==
    IF Len(viable) = 0 THEN candidates
    ELSE LET cell == viable[1]
             is_well_covered ==
                 \E j \in 1..Len(candidates) :
                     10 * Distance(cell.pos, candidates[j].cell.pos) < 7 * WarehouseServiceRadius
             cand == StrategicCandidate(cell, cs)
         IN  IdentifyLoop(Tail(viable), cs,
                 IF ~is_well_covered /\ cand.coverage_count >= MinCellsCovered
                 THEN Append(candidates, cand) ELSE candidates)

RECURSIVE SortByNeedServed(_)
SortByNeedServed(s) ==
    IF Len(s) = 0 THEN <<>>
    ELSE LET t == SortByNeedServed(SubSeq(s, 1, Len(s) - 1))
             x == s[Len(s)]
             k == Cardinality({j \in 1..Len(t) : t[j].total_need_served >= x.total_need_served})
         IN  SubSeq(t, 1, k) \o <<x>> \o SubSeq(t, k + 1, Len(t))

IdentifyStrategicWarehouseLocations(cs) ==
    LET strong == SelectSeq(cs, LAMBDA c : c.need > 50 /\ c.population > 100)
        byNeed == SortByNeed(cs)
        viable_cells == IF Len(strong) > 0 THEN strong
                        ELSE SubSeq(byNeed, 1, Min(10, Len(byNeed)))
        sorted == SortByNeedServed(IdentifyLoop(viable_cells, cs, <<>>))
    IN  SubSeq(sorted, 1, Min(MaxWarehouseCandidates, Len(sorted)))

RECURSIVE Gcd(_, _)
Gcd(a, b) == IF b = 0 THEN a ELSE Gcd(b, a % b)

RECURSIVE LcmUpTo(_)
LcmUpTo(n) ==
    IF n <= 1 THEN 1 ELSE (LcmUpTo(n - 1) * n) \div Gcd(LcmUpTo(n - 1), n)

\* efficiency = 0.6 * coverage_efficiency + 0.4 * logistics_score, where
\*   coverage_efficiency = min(1, coverage_need / max(total_domain_need * 0.4, 1))
\*   logistics_score     = min(1, (coverage_population / max(count, 1)) / 500)
\* scaled by 1250 * ceDen * L, with L a common multiple of every coverage count
StrategicEfficiency(candidate, cs) ==
    LET total_domain_need == SumSeq([j \in 1..Len(cs) |-> cs[j].need])
        coverage_need == candidate.total_need_served
        count == Max(candidate.coverage_count, 1)
        big == 2 * total_domain_need >= 5
        ceDen == IF big THEN 2 * total_domain_need ELSE 1
        ceNum == IF big THEN Min(2 * total_domain_need, 5 * coverage_need)
                 ELSE Min(1, coverage_need)
        lsNum == Min(500 * count, candidate.total_population_served)
        L == LcmUpTo(Len(cs))
    IN  750 * ceNum * L + ceDen * lsNum * (L \div count)

StrategicWarehouse(candidate, cs) ==
    LET capacity == (candidate.total_need_served * 3) \div 5
    IN  [geoid |-> [prefix |-> "strategic_warehouse", cell |-> candidate.cell.geoid],
         pos |-> candidate.cell.pos,
         capacity |-> capacity,
         distribution_radius |-> candidate.service_radius,
         efficiency_score |-> StrategicEfficiency(candidate, cs),
         setup_cost |-> 180000 + capacity * 12,
         operational_cost_monthly |-> 15000 + candidate.coverage_count * 100,
         food_banks_served |-> <<>>]

RECURSIVE SortByScore(_)
SortByScore(s) ==
    IF Len(s) = 0 THEN <<>>
    ELSE LET t == SortByScore(SubSeq(s, 1, Len(s) - 1))
             x == s[Len(s)]
             k == Cardinality({j \in 1..Len(t) : t[j].efficiency_score >= x.efficiency_score})
         IN  SubSeq(t, 1, k) \o <<x>> \o SubSeq(t, k + 1, Len(t))

\* the two candidates have the same inputs of the strategic score (the need,
\* the population and the number of the cells they cover), and so the same
\* float score
SameStrategicInputs(a, b) ==
    /\ a.total_need_served = b.total_need_served
    /\ a.total_population_served = b.total_population_served
    /\ a.coverage_count = b.coverage_count

\* sorted(scored_candidates, key=score, reverse=True): stable and descending
\* on the float scores.  Scores that differ here differ in the same direction
\* as floats; candidates with the same inputs have equal floats and keep
\* their order; candidates with different inputs and the same exact score
\* have floats that can differ in the last digits, in a direction that the
\* rounding of the float sum decides: both orders are allowed.  The result is
\* the set of the warehouse lists the sort can return
ScoreSorts(candidates, cs) ==
    LET s == [j \in 1..Len(candidates) |-> StrategicWarehouse(candidates[j], cs)]
    IN  IF \A a, b \in 1..Len(s) :
               s[a].efficiency_score = s[b].efficiency_score
                   => SameStrategicInputs(candidates[a], candidates[b])
        THEN {SortByScore(s)}
        ELSE {[k \in 1..Len(s) |-> s[q[k]]] :
                q \in {p \in Perms(1..Len(s)) :
                         \A j, k \in 1..Len(s) :
                             j < k =>
                                 \/ s[p[j]].efficiency_score > s[p[k]].efficiency_score
                                 \/ /\ s[p[j]].efficiency_score = s[p[k]].efficiency_score
                                    /\ SameStrategicInputs(candidates[p[j]], candidates[p[k]])
                                          => p[j] < p[k]}}

\* the lists _score_strategic_warehouses can return
ScoreStrategicWarehouses(candidates, cs) == ScoreSorts(candidates, cs)

WarehouseCost(w, months) == w.setup_cost + months * w.operational_cost_monthly

RECURSIVE SelectStrategicWarehouses(_, _, _)
SelectStrategicWarehouses(scored, remaining, selected) ==
    IF Len(scored) = 0 THEN selected
    ELSE LET warehouse == scored[1]
             total_cost == WarehouseCost(warehouse, WarehouseMonths)
         IN  IF total_cost <= remaining
             THEN IF Len(selected) + 1 >= MaxWarehouses
                     \/ remaining - total_cost < WarehouseBudgetFloor
                  THEN Append(selected, warehouse)
                  ELSE SelectStrategicWarehouses(Tail(scored), remaining - total_cost,
                                                 Append(selected, warehouse))
             ELSE SelectStrategicWarehouses(Tail(scored), remaining, selected)

\* the warehouse lists optimize_warehouses_first can return: one for each
\* list the scoring step can return
OptimizeWarehousesFirst(cs, wbudget) ==
    IF Len(cs) = 0 THEN {<<>>}
    ELSE {SelectStrategicWarehouses(scored, wbudget, <<>>) :
             scored \in ScoreStrategicWarehouses(
                            IdentifyStrategicWarehouseLocations(cs), cs)}

\* the warehouse _score_warehouse_candidates builds for a candidate: the
\* cell closest to the centroid of a cluster of food banks, the geoids of the
\* cluster, the sum of their expected_impact and the distance of the cell from
\* the centroid.  efficiency_score is
\*   1000 * (0.4 * coverage_efficiency + 0.6 * location_efficiency), with
\*   location_efficiency = max(0.1, 1 - centroid_distance / 5)
ClusterWarehouse(id, pos, served, capacity, centroid_distance) ==
    LET coverage_score == Len(served)
        coverage_efficiency == IF coverage_score = 1 THEN 700
                               ELSE IF coverage_score <= 3 THEN 1000
                               ELSE 800 - (coverage_score - 3) * 100
        location_efficiency == Max(100, 1000 - 20 * centroid_distance)
    IN  [geoid |-> [prefix |-> "warehouse", cell |-> id],
         pos |-> pos,
         capacity |-> capacity,
         distribution_radius |-> Min(25, 15 + (coverage_score - 1) * 3),
         efficiency_score |-> (4 * coverage_efficiency + 6 * location_efficiency) \div 10,
         setup_cost |-> 120000 + capacity * (IF coverage_score <= 2 THEN 15
                                             ELSE IF coverage_score <= 3 THEN 20 ELSE 25),
         operational_cost_monthly |-> 8000 + capacity * 2 + (coverage_score - 1) * 1500,
         food_banks_served |-> served]


(****************************** inputs ************************************)
Profiles == {"hi", "lo"}

Spacings == {2, 12, 70}

MakeCell(i, spacing, profile) ==
    [geoid |-> i,
     pos |-> (i - 1) * spacing,
     population |-> IF profile = "hi" THEN 1000 ELSE 120,
     need |-> IF profile = "hi" THEN 500 ELSE 60,
     poverty |-> IF profile = "hi" THEN 30 ELSE 10,
     vehicle |-> IF profile = "hi" THEN 80 ELSE 90]

CellLists(maxN) ==
    UNION {{[i \in 1..n |-> MakeCell(i, sp, f[i])] :
                f \in [1..n -> Profiles], sp \in Spacings} : n \in 0..maxN}

\* the domains of the pipeline: up to MaxCells blocks, all of the low-need
\* profile or the third and later ones of the high-need profile; the poverty
\* rate rises by one point per block, so no two cells have the same efficiency
PipelinePatterns == {"lo", "mixed"}

PipelineSpacings == {12}

PipelineCell(i, spacing, pattern) ==
    [MakeCell(i, spacing, IF pattern = "mixed" /\ i > 2 THEN "hi" ELSE "lo")
        EXCEPT !.poverty = @ + i]

PipelineCellLists ==
    {[i \in 1..n |-> PipelineCell(i, sp, pt)] :
        n \in 0..MaxCells, sp \in PipelineSpacings, pt \in PipelinePatterns}

\* a domain of six cells on which two strategic warehouse candidates, on
\* cells 1 and 6, cover five cells each with different need and population and
\* have the same exact score 0.7152 (0.6 * 1 + 0.4 * 0.288 on cell 1,
\* 0.6 * 80 / 96 + 0.4 * 0.538 on cell 6); the poverty rate rises by one
\* point per cell, so no two cells have the same efficiency
TiePositions == <<0, 40, 45, 50, 55, 95>>

TiePopulations == <<320, 100, 100, 100, 100, 945>>

TieNeeds == <<160, 25, 0, 0, 0, 55>>

TieCellLists ==
    {[i \in 1..6 |->
        [geoid |-> i, pos |-> TiePositions[i], population |-> TiePopulations[i],
         need |-> TieNeeds[i], poverty |-> 10 + i, vehicle |-> 90]]}

TieBudgets == {1300000, 2600000}

MaxDirectCells == 3

PipelineBudgets == {0, 216534, 232000, 1300000, 2600000}

\* the budgets of the pipeline on a domain of three or more blocks: none, and
\* two that pay for warehouses and food banks
LargeDomainBudgets == {0, 1300000, 2600000}

DirectBudgets == {0, 60000, 129488, 170000, 360000}

MinDistances == {3, 20}

MaxLocations == {2, 1000}

\* warehouse lists handed to optimize_within_warehouse_coverage: none; one
\* built for food bank 1 on a cell 10 miles from the cells of the call; one
\* built for food bank 1 on cell 1; that one and one built on cell 2 for the
\* food banks 2 and 3, whose centroid is 0.6 miles from the cell
WarehouseLists ==
    {<<>>,
     <<ClusterWarehouse(1, -100, <<1>>, 200, 0)>>,
     <<ClusterWarehouse(1, 0, <<1>>, 200, 0)>>,
     <<ClusterWarehouse(1, 0, <<1>>, 200, 0), ClusterWarehouse(2, 12, <<2, 3>>, 400, 6)>>}

\* multiprocessing.cpu_count() of the machine; num_workers is at most 8
CpuCounts == {1, 2, 3, 4, 16}

MaxValidateCells == 2

MaxFacilities == 2

ValidateBudgets == {0, 185000, 400000, 1000000, 2827000}

\* warehouse lists handed to a direct validate call; in the last one a large
\* warehouse (12-month cost 2556000) precedes one whose 12-month cost 273000
\* exceeds twice its setup cost 135000
ValidateWarehouseLists ==
    WarehouseLists \cup
    {<<ClusterWarehouse(1, 0, <<1>>, 60000, 0),
       ClusterWarehouse(2, 12, <<2, 3>>, 1000, 6)>>}

\* cells on which the food banks handed to a direct validate call are
\* anchored; the last one is far from every cell of the validated pool
FacilityAnchors ==
    {MakeCell(i, 12, p) : i \in 1..2, p \in Profiles} \cup {MakeCell(30, 12, "lo")}

ValidateCellLists ==
    UNION {{[i \in 1..n |-> MakeCell(i, 12, f[i])] : f \in [1..n -> Profiles]} :
               n \in 0..MaxValidateCells}

RECURSIVE DistinctSeqs(_, _)
DistinctSeqs(S, n) ==
    IF n = 0 THEN {<<>>}
    ELSE LET shorter == DistinctSeqs(S, n - 1)
         IN  shorter \cup
             UNION {{Append(q, x) : x \in S \ Range(q)} :
                        q \in {r \in shorter : Len(r) = n - 1}}

FacilityLists ==
    {[j \in 1..Len(q) |-> FoodBankLocation(ScoreCell(q[j]))] :
         q \in DistinctSeqs(FacilityAnchors, MaxFacilities)}

NoResult == [status |-> "none"]

NoCollection == [exists |-> FALSE, blocks |-> <<>>]

NoStatistics ==
    [defined |-> FALSE, total_cells |-> 0, total_population |-> 0, total_need |-> 0]

NoVal ==
    [phase |-> "idle", i |-> 0, validated_locations |-> <<>>,
     validated_warehouses |-> <<>>, covered_cells |-> {}, total_impact |-> 0,
     budget_used |-> 0, adjustments_made |-> 0, charges |-> <<>>]

NoArgs == [locations |-> <<>>, warehouses |-> <<>>, pass |-> 0]

FirstPhase(locs, whs) ==
    IF Len(locs) > 0 THEN "locations"
    ELSE IF Len(whs) > 0 THEN "warehouses" ELSE "return"

StartVal(locs, whs) ==
    [NoVal EXCEPT !.phase = FirstPhase(locs, whs), !.i = 1]

\* four cells A, B, C, D (geoids 1..4) with populations 1000, 1000, 10, 10 and
\* one food insecurity score (need = population * score); poverty is 50% in A,
\* 0% in D and the common `base` rate in B and C; A and B are 0.2 miles apart
PovertyBaselines == {10, 40}

InsecurityScores10 == {5, 20}

ScenarioCells(base, score10, posC, posD) ==
    [k \in 1..4 |->
        [geoid |-> k,
         pos |-> <<0, 2, posC, posD>>[k],
         population |-> <<1000, 1000, 10, 10>>[k],
         need |-> (<<1000, 1000, 10, 10>>[k] * score10) \div 10,
         poverty |-> <<50, base, base, 0>>[k],
         vehicle |-> 80]]

ScenarioOrders == {<<1, 2, 3, 4>>, <<4, 3, 2, 1>>, <<2, 1, 3, 4>>}

ScenarioCellLists ==
    {[k \in 1..4 |-> ScenarioCells(base, score10, posC, posD)[order[k]]] :
        base \in PovertyBaselines, score10 \in InsecurityScores10,
        posC \in {4, 40}, posD \in {6, 80}, order \in ScenarioOrders}

ScenarioBudgets == {180000, 185000, 200000, 360000}

\* the entries that run OptimizationAgent.optimize
OptimizerEntries == {"optimize_locations", "optimize_within_warehouse_coverage"}

\* documents of a domain collection: a valid populated block, a block without
\* population, one whose coordinates list is empty, one without geometry, one
\* without properties, one whose properties lack the geoid
BlockKinds ==
    {"valid", "unpopulated", "bad_coordinates", "no_geometry", "no_properties",
     "no_geoid"}

MakeBlock(i, kind) ==
    [id |-> i,
     properties |-> IF kind = "no_properties" THEN "absent"
                    ELSE IF kind = "no_geoid" THEN "no_geoid" ELSE "full",
     geometry |-> IF kind = "no_geometry" THEN "absent"
                  ELSE IF kind = "bad_coordinates" THEN "empty" ELSE "polygon",
     pop |-> IF kind = "unpopulated" THEN 0 ELSE 120,
     need |-> IF kind = "unpopulated" THEN 0 ELSE 60,
     pos |-> (i - 1) * 12,
     poverty |-> 10,
     vehicle |-> 90]

\* the valid document from which _process_blocks_chunk builds the cell
CellBlock(cell) ==
    [id |-> cell.geoid, properties |-> "full", geometry |-> "polygon",
     pop |-> cell.population, need |-> cell.need, pos |-> cell.pos,
     poverty |-> cell.poverty, vehicle |-> cell.vehicle]

StreamBudgets == {200000, 1300000}

Collections ==
    {NoCollection} \cup
    {[exists |-> TRUE, blocks |-> bs] :
        bs \in UNION {{[i \in 1..n |-> MakeBlock(i, f[i])] : f \in [1..n -> BlockKinds]} :
                         n \in 0..MaxBlocks}}

\* a call of optimize_locations (the whole pipeline), of
\* optimize_within_warehouse_coverage followed by validate, or of validate
InitPipeline ==
    /\ \/ collection = NoCollection
       \/ \E cs \in PipelineCellLists :
             collection = [exists |-> TRUE,
                           blocks |-> [j \in 1..Len(cs) |-> CellBlock(cs[j])]]
    /\ entry = "optimize_locations"
    /\ cells = <<>>
    /\ budget \in PipelineBudgets
    /\ (Len(collection.blocks) > 2 => budget \in LargeDomainBudgets)
    /\ warehouses = <<>>
    /\ max_locations \in MaxLocations
    /\ min_distance \in MinDistances
    /\ pc = "analyze"
    /\ val = NoVal
    /\ vin = NoArgs

\* a call of optimize_locations on the domain of the tied warehouse candidates
InitTie ==
    /\ \E cs \in TieCellLists :
          collection = [exists |-> TRUE,
                        blocks |-> [j \in 1..Len(cs) |-> CellBlock(cs[j])]]
    /\ entry = "optimize_locations"
    /\ cells = <<>>
    /\ budget \in TieBudgets
    /\ warehouses = <<>>
    /\ max_locations = 2
    /\ min_distance = 20
    /\ pc = "analyze"
    /\ val = NoVal
    /\ vin = NoArgs

InitCoverage ==
    /\ collection = NoCollection
    /\ entry = "optimize_within_warehouse_coverage"
    /\ cells \in CellLists(MaxDirectCells)
    /\ budget \in DirectBudgets
    /\ warehouses \in WarehouseLists
    /\ max_locations \in MaxLocations
    /\ min_distance \in MinDistances
    /\ pc = "coverage"
    /\ val = NoVal
    /\ vin = NoArgs

\* cells for the scorer: without population, without need, and with need and
\* population large enough to reach the caps of both cost formulas
ScorerPopulations == {0, 10, 1000, 100000}

ScorerNeeds == {0, 5, 500, 12500, 50000}

ScorerCell(i, population, need) ==
    [geoid |-> i, pos |-> (i - 1) * 12, population |-> population, need |-> need,
     poverty |-> 10, vehicle |-> 90]

MaxScorerCells == 2

ScorerCellLists ==
    UNION {{[i \in 1..n |-> ScorerCell(i, p[i], d[i])] :
                p \in [1..n -> ScorerPopulations], d \in [1..n -> ScorerNeeds]} :
               n \in 1..MaxScorerCells}

\* optimize reached through optimize_within_warehouse_coverage without
\* warehouses, on the scorer's cells
InitScorer ==
    /\ collection = NoCollection
    /\ entry = "optimize_within_warehouse_coverage"
    /\ cells \in ScorerCellLists
    /\ budget = 600000
    /\ warehouses = <<>>
    /\ max_locations \in MaxLocations
    /\ min_distance \in MinDistances
    /\ pc = "coverage"
    /\ val = NoVal
    /\ vin = NoArgs

\* three cells 0.3 miles apart and a fourth one 9 miles away
ClusterPositions == <<0, 3, 6, 90>>

ClusterCellLists ==
    {[k \in 1..4 |-> [MakeCell(k, 3, f[k]) EXCEPT !.pos = ClusterPositions[k]]] :
        f \in [1..4 -> Profiles]}

\* two cells with different inputs and the same exact efficiency, 0.01:
\* need 20 and no poverty, no need and poverty 5%
RoundingCellLists ==
    {<<[geoid |-> 1, pos |-> 0, population |-> 100, need |-> 20,
        poverty |-> 0, vehicle |-> 100],
       [geoid |-> 2, pos |-> 12, population |-> 100, need |-> 0,
        poverty |-> 5, vehicle |-> 100]>>}

ClusterBudgets == {600000, 1000000}

\* optimize reached through optimize_within_warehouse_coverage without
\* warehouses, on a cluster of cells with one outlier
InitCluster ==
    /\ collection = NoCollection
    /\ entry = "optimize_within_warehouse_coverage"
    /\ cells \in ClusterCellLists \cup RoundingCellLists
    /\ budget \in ClusterBudgets
    /\ warehouses = <<>>
    /\ max_locations \in MaxLocations
    /\ min_distance \in MinDistances
    /\ pc = "coverage"
    /\ val = NoVal
    /\ vin = NoArgs

\* optimize reached through optimize_within_warehouse_coverage without
\* warehouses, on the four-cell scenario
InitScenario ==
    /\ collection = NoCollection
    /\ entry = "optimize_within_warehouse_coverage"
    /\ cells \in ScenarioCellLists
    /\ budget \in ScenarioBudgets
    /\ warehouses = <<>>
    /\ max_locations \in MaxLocations
    /\ min_distance \in MinDistances
    /\ pc = "coverage"
    /\ val = NoVal
    /\ vin = NoArgs

InitValidate ==
    /\ collection = NoCollection
    /\ entry = "validate"
    /\ cells \in ValidateCellLists
    /\ budget \in ValidateBudgets
    /\ warehouses \in ValidateWarehouseLists
    /\ max_locations = 0
    /\ min_distance = 0
    /\ pc = "validate"
    /\ \E locs \in FacilityLists :
          /\ vin = [locations |-> locs, warehouses |-> warehouses, pass |-> 1]
          /\ val = StartVal(locs, warehouses)

\* a call of analyze_domain on a collection of up to MaxBlocks documents
InitAnalyze ==
    /\ entry = "analyze_domain"
    /\ collection \in Collections
    /\ cells = <<>>
    /\ budget = 0
    /\ warehouses = <<>>
    /\ max_locations = 0
    /\ min_distance = 0
    /\ pc = "analyze"
    /\ val = NoVal
    /\ vin = NoArgs

\* a streamed run of optimize_locations on a domain collection of up to
\* MaxBlocks documents
InitStream ==
    /\ entry = "streaming_optimize_locations"
    /\ collection \in Collections
    /\ cells = <<>>
    /\ budget \in StreamBudgets
    /\ warehouses = <<>>
    /\ max_locations = 10
    /\ min_distance = 5
    /\ pc = "stream"
    /\ val = NoVal
    /\ vin = NoArgs

Init ==
    /\ (InitPipeline \/ InitTie \/ InitCoverage \/ InitScenario \/ InitCluster
          \/ InitScorer \/ InitValidate \/ InitAnalyze \/ InitStream)
    /\ events = <<>>
    /\ statistics = NoStatistics
    /\ covered_cells = <<>>
    /\ pool = <<>>
    /\ optBudget = 0
    /\ scored_cells = <<>>
    /\ selected_locations = <<>>
    /\ remaining_budget = 0
    /\ used_cells = {}
    /\ made_progress = FALSE
    /\ iteration = 0
    /\ idx = 0
    /\ charged = <<>>
    /\ optResult = NoResult
    /\ firstVal = NoResult
    /\ result = NoResult

(******************* DataAnalysisAgent.analyze_domain *********************)
\* the Cell built from a block: the centroid of its polygon and the values of
\* its properties
BlockCell(block) ==
    [geoid |-> block.id,
     pos |-> block.pos,
     population |-> block.pop,
     need |-> block.need,
     poverty |-> block.poverty,
     vehicle |-> block.vehicle]

\* _process_blocks_chunk: block['properties'], block['geometry'] and
\* props['geoid'] raise KeyError when the key is missing, which ends the call;
\* an IndexError or TypeError on the coordinates skips the block
RECURSIVE ProcessBlocksChunk(_, _)
ProcessBlocksChunk(blocks_chunk, acc) ==
    IF Len(blocks_chunk) = 0 THEN [raised |-> FALSE, cells |-> acc]
    ELSE LET block == Head(blocks_chunk)
             rest == Tail(blocks_chunk)
         IN  IF block.properties = "absent" THEN [raised |-> TRUE, cells |-> <<>>]
             ELSE IF block.geometry = "absent" THEN [raised |-> TRUE, cells |-> <<>>]
             ELSE IF block.geometry = "empty" THEN ProcessBlocksChunk(rest, acc)
             ELSE IF block.properties = "no_geoid" THEN [raised |-> TRUE, cells |-> <<>>]
             ELSE IF BlockCell(block).population > 0
                  THEN ProcessBlocksChunk(rest, Append(acc, BlockCell(block)))
                  ELSE ProcessBlocksChunk(rest, acc)

\* block_chunks = [blocks[i:i + chunk_size] for i in range(0, len(blocks), chunk_size)]
BlockChunks(bs, num_workers) ==
    LET chunk_size == Max(1, Len(bs) \div num_workers)
        n == (Len(bs) + chunk_size - 1) \div chunk_size
    IN  [k \in 1..n |->
            SubSeq(bs, (k - 1) * chunk_size + 1, Min(k * chunk_size, Len(bs)))]

\* cells.extend(future.result()) in completion order; a chunk whose call
\* raised is logged and contributes nothing
GatherCells(chunks, order) ==
    Concat([k \in 1..Len(order) |->
               ProcessBlocksChunk(chunks[order[k]], <<>>).cells])

Statistics(cs) ==
    [defined |-> TRUE,
     total_cells |-> Len(cs),
     total_population |-> SumSeq([j \in 1..Len(cs) |-> cs[j].population]),
     total_need |-> SumSeq([j \in 1..Len(cs) |-> cs[j].need])]

AnalyzeDomain ==
    /\ pc = "analyze"
    /\ entry \in {"analyze_domain", "optimize_locations", "streaming_optimize_locations"}
    /\ IF ~collection.exists
       THEN /\ cells' = <<>>
            /\ statistics' = NoStatistics
       ELSE \E cpu_count \in CpuCounts :
              LET chunks == BlockChunks(collection.blocks, Min(cpu_count, MaxWorkers))
              IN  \E order \in Perms(1..Len(chunks)) :
                      /\ cells' = GatherCells(chunks, order)
                      /\ statistics' = Statistics(GatherCells(chunks, order))
    /\ pc' = IF entry = "analyze_domain" THEN "done"
             ELSE IF entry = "optimize_locations" THEN "start"
             ELSE "data_collected"
    /\ UNCHANGED <<events, collection, entry, budget, max_locations, min_distance,
                   warehouses, covered_cells, pool, optBudget, scored_cells,
                   selected_locations, remaining_budget, used_cells,
                   made_progress, iteration, idx, charged, optResult, val, vin,
                   firstVal, result>>

(************** LocationOptimizationAgent.optimize_locations **************)
\* variant: the early return reports the whole budget as used
ErrorResultBudgetUsed ==
    [status |-> "error", locations |-> <<>>, warehouses |-> <<>>,
     total_people_served |-> 0, total_budget_used |-> budget,
     coverage_percentage |-> 0, optimization_metrics |-> {}]

\* the result returned when the analysis yields no cells; optimization_metrics
\* is given by its set of keys
ErrorResult ==
    [status |-> "error", locations |-> <<>>, warehouses |-> <<>>,
     total_people_served |-> 0, total_budget_used |-> 0,
     coverage_percentage |-> 0, optimization_metrics |-> {}]

\* steps 1 and 2: the analysis result, then optimize_warehouses_first on 25%
OptimizeLocationsStart ==
    /\ pc = "start"
    /\ IF Len(cells) = 0
       THEN /\ result' = ErrorResult
            /\ pc' = "done"
            /\ UNCHANGED warehouses
       ELSE /\ warehouses' \in OptimizeWarehousesFirst(cells, budget \div 4)
            /\ pc' = "coverage"
            /\ UNCHANGED result
    /\ UNCHANGED <<events, collection, statistics, entry, cells, budget, max_locations, min_distance,
                   covered_cells, pool, optBudget, scored_cells,
                   selected_locations, remaining_budget, used_cells,
                   made_progress, iteration, idx, charged, optResult, val,
                   vin, firstVal>>

(********* OptimizationAgent.optimize_within_warehouse_coverage ***********)
\* variant: the 6-mile strategic radius instead of the warehouse's own radius
RECURSIVE CoveringWarehouseFixedRadius(_, _, _, _)
CoveringWarehouseFixedRadius(cell, whs, k, current) ==
    IF k > Len(whs) THEN current
    ELSE IF Distance(whs[k].pos, cell.pos) <= WarehouseServiceRadius
         THEN IF current = 0 \/ whs[k].capacity > whs[current].capacity
              THEN CoveringWarehouseFixedRadius(cell, whs, k + 1, k)
              ELSE CoveringWarehouseFixedRadius(cell, whs, k + 1, current)
         ELSE CoveringWarehouseFixedRadius(cell, whs, k + 1, current)

\* variant: a cell stays with the first warehouse that covers it
RECURSIVE CoveringWarehouseFirstOnly(_, _, _, _)
CoveringWarehouseFirstOnly(cell, whs, k, current) ==
    IF k > Len(whs) THEN current
    ELSE IF Distance(whs[k].pos, cell.pos) <= whs[k].distribution_radius
         THEN IF current = 0
              THEN CoveringWarehouseFirstOnly(cell, whs, k + 1, k)
              ELSE CoveringWarehouseFirstOnly(cell, whs, k + 1, current)
         ELSE CoveringWarehouseFirstOnly(cell, whs, k + 1, current)

\* the warehouse covered_cells[cell.geoid] ends up with: the first covering
\* warehouse, replaced by each later one of strictly higher capacity
RECURSIVE CoveringWarehouse(_, _, _, _)
CoveringWarehouse(cell, whs, k, current) ==
    IF k > Len(whs) THEN current
    ELSE IF Distance(whs[k].pos, cell.pos) <= whs[k].distribution_radius
         THEN IF current = 0 \/ whs[k].capacity > whs[current].capacity
              THEN CoveringWarehouse(cell, whs, k + 1, k)
              ELSE CoveringWarehouse(cell, whs, k + 1, current)
         ELSE CoveringWarehouse(cell, whs, k + 1, current)

CoveredCells(cs, whs) ==
    [j \in 1..Len(cs) |-> CoveringWarehouse(cs[j], whs, 1, 0)]

ViableCells(cs, whs) ==
    LET cov == CoveredCells(cs, whs)
        keep == {j \in 1..Len(cs) : cov[j] # 0}
        RECURSIVE Pick(_)
        Pick(j) == IF j > Len(cs) THEN <<>>
                   ELSE IF j \in keep THEN <<cs[j]>> \o Pick(j + 1) ELSE Pick(j + 1)
    IN  Pick(1)

\* variant: the coverage filter is applied to an empty warehouse list too
CandidatePoolNoFallback(cs, whs) == ViableCells(cs, whs)

\* the cells optimize works on: all of them without warehouses
\* ("Fallback to regular optimization if no warehouses"), else the covered ones
CandidatePool(cs, whs) ==
    IF Len(whs) = 0 THEN cs ELSE ViableCells(cs, whs)

\* the budget handed to optimize, request.budget * 0.75 in the pipeline: its
\* whole dollars, and the quarter dollars above them.  Every cost is a whole
\* number of dollars, so the remaining budget keeps this fraction throughout
FoodBankBudget ==
    IF entry = "optimize_locations" THEN (budget * 3) \div 4 ELSE budget

BudgetQuarters ==
    IF entry = "optimize_locations" THEN (budget * 3) % 4 ELSE 0

\* an amount of the allocator's budget in quarter dollars
Quarters(dollars) == 4 * dollars + BudgetQuarters

\* variant: the early return reports no budget left
EmptyOptimizationZero(b) ==
    [status |-> "returned", locations |-> <<>>, iterations |-> 0, budget_remaining |-> 0]

EmptyOptimization(b) ==
    [status |-> "returned", locations |-> <<>>, iterations |-> 0, budget_remaining |-> b]

WithinWarehouseCoverage ==
    /\ pc = "coverage"
    /\ optBudget' = FoodBankBudget
    /\ covered_cells' = CoveredCells(cells, warehouses)
    /\ LET viable_cells == CandidatePool(cells, warehouses)
       IN  IF Len(warehouses) > 0 /\ Len(viable_cells) = 0
           THEN /\ optResult' = EmptyOptimization(FoodBankBudget)
                /\ pool' = <<>>
                /\ pc' = "validate_call"
           ELSE /\ pool' = viable_cells
                /\ pc' = "score"
                /\ UNCHANGED optResult
    /\ UNCHANGED <<events, collection, statistics, entry, cells, budget, max_locations, min_distance, warehouses,
                   scored_cells, selected_locations, remaining_budget, used_cells,
                   made_progress, iteration, idx, charged, val, vin, firstVal,
                   result>>


(********************** OptimizationAgent.optimize ************************)
\* parallel scoring, the gather in completion order, the sort, and the
\* initialisation of the selection state
ScoreCells ==
    /\ pc = "score"
    /\ \E cpu_count \in CpuCounts :
         LET chunks == CellChunks(pool, Min(cpu_count, MaxWorkers))
         IN  \E order \in CompletionOrders(chunks) :
                 scored_cells' \in EfficiencySorts(GatherScores(chunks, order))
    /\ selected_locations' = <<>>
    /\ remaining_budget' = optBudget
    /\ used_cells' = {}
    /\ made_progress' = TRUE
    /\ iteration' = 0
    /\ idx' = 0
    /\ charged' = <<>>
    /\ pc' = "while"
    /\ UNCHANGED <<events, collection, statistics, entry, cells, budget, max_locations, min_distance, warehouses,
                   covered_cells, pool, optBudget, optResult, val, vin, firstVal,
                   result>>

\* while made_progress and remaining_budget > 50000 and len(selected) < max_locations
\* variant: a round is started whether or not the previous one added anything
WhileConditionIgnoresProgress ==
    /\ remaining_budget > MinRoundBudget
    /\ Len(selected_locations) < max_locations

\* variant: the floor is 10% of the budget optimize was called with
WhileConditionTenPercent ==
    /\ made_progress
    /\ 10 * remaining_budget > optBudget
    /\ Len(selected_locations) < max_locations

WhileCondition ==
    /\ made_progress
    /\ Quarters(remaining_budget) > 4 * MinRoundBudget
    /\ Len(selected_locations) < max_locations

StartRound ==
    /\ pc = "while"
    /\ WhileCondition
    /\ made_progress' = FALSE
    /\ iteration' = iteration + 1
    /\ idx' = 1
    /\ pc' = IF Len(scored_cells) = 0 THEN "while" ELSE "for"
    /\ UNCHANGED <<events, collection, statistics, entry, cells, budget, max_locations, min_distance, warehouses,
                   covered_cells, pool, optBudget, scored_cells,
                   selected_locations, remaining_budget, used_cells, charged,
                   optResult, val, vin, firstVal, result>>

\* variant: only the most recently selected location is compared
TooCloseLastOnly(cell_data, selected, min_dist) ==
    /\ Len(selected) > 0
    /\ Distance(cell_data.pos, selected[Len(selected)].pos) < min_dist

\* variant: the distance is taken in a unit ten times larger than min_distance's
TooCloseWrongUnit(cell_data, selected, min_dist) ==
    \E j \in 1..Len(selected) :
        10 * Distance(cell_data.pos, selected[j].pos) < min_dist

TooClose(cell_data, selected, min_dist) ==
    \E j \in 1..Len(selected) : Distance(cell_data.pos, selected[j].pos) < min_dist

CandidateCost(scored_cell, months) ==
    scored_cell.setup_cost + months * scored_cell.operational_cost

\* variant: the 10% floor is taken of the remaining budget, not of the original
FallbackAllowedTenfold(scored_cell, remaining, original) ==
    /\ remaining > scored_cell.setup_cost * 2
    /\ remaining > 10 * original

\* "Try with just setup cost if we have significant budget left":
\* remaining_budget > setup_cost * 2 and remaining_budget > budget * 0.1
FallbackAllowed(scored_cell, remaining, original) ==
    /\ Quarters(remaining) > 4 * scored_cell.setup_cost * 2
    /\ 10 * Quarters(remaining) > Quarters(original)

\* variant: the fallback admits the candidate but the 12-month cost is deducted
TotalCostKeeps12(scored_cell, remaining, original) ==
    IF CandidateCost(scored_cell, SustainMonths) <= remaining
    THEN CandidateCost(scored_cell, SustainMonths)
    ELSE IF /\ FallbackAllowed(scored_cell, remaining, original)
            /\ CandidateCost(scored_cell, FallbackMonths) <= remaining
         THEN CandidateCost(scored_cell, SustainMonths)
         ELSE -1

\* variant: a candidate that fails the 12-month test is always taken at 6 months
TotalCostNoSkip(scored_cell, remaining, original) ==
    IF CandidateCost(scored_cell, SustainMonths) <= remaining
    THEN CandidateCost(scored_cell, SustainMonths)
    ELSE CandidateCost(scored_cell, FallbackMonths)

\* the cost the allocator charges, or -1 when the candidate is skipped
TotalCost(scored_cell, remaining, original) ==
    IF CandidateCost(scored_cell, SustainMonths) <= remaining
    THEN CandidateCost(scored_cell, SustainMonths)
    ELSE IF /\ FallbackAllowed(scored_cell, remaining, original)
            /\ CandidateCost(scored_cell, FallbackMonths) <= remaining
         THEN CandidateCost(scored_cell, FallbackMonths)
         ELSE -1

\* one iteration of `for i, scored_cell in enumerate(scored_cells)`
Examine ==
    /\ pc = "for"
    /\ LET scored_cell == scored_cells[idx]
           used == idx \in used_cells
           full == Len(selected_locations) >= max_locations
           too_close == TooClose(scored_cell.cell, selected_locations, min_distance)
           total_cost == TotalCost(scored_cell, remaining_budget, optBudget)
           add == ~used /\ ~full /\ ~too_close /\ total_cost >= 0
           break == ~used /\ full
       IN  /\ IF add
              THEN /\ selected_locations' =
                         Append(selected_locations, FoodBankLocation(scored_cell))
                   /\ remaining_budget' = remaining_budget - total_cost
                   /\ charged' = Append(charged, total_cost)
                   /\ used_cells' = used_cells \cup {idx}
                   /\ made_progress' = TRUE
              ELSE UNCHANGED <<selected_locations, remaining_budget, charged,
                               used_cells, made_progress>>
           /\ IF break \/ idx = Len(scored_cells)
              THEN pc' = "while" /\ UNCHANGED idx
              ELSE pc' = "for" /\ idx' = idx + 1
    /\ UNCHANGED <<events, collection, statistics, entry, cells, budget, max_locations, min_distance, warehouses,
                   covered_cells, pool, optBudget, scored_cells, iteration,
                   optResult, val, vin, firstVal, result>>

\* optimize returns; with warehouses the caller then links the food banks
OptimizeReturn ==
    /\ pc = "while"
    /\ ~WhileCondition
    /\ optResult' = [status |-> "returned",
                     locations |-> selected_locations,
                     iterations |-> iteration,
                     budget_remaining |-> remaining_budget]
    /\ pc' = IF Len(warehouses) = 0 THEN "validate_call" ELSE "link"
    /\ UNCHANGED <<events, collection, statistics, entry, cells, budget, max_locations, min_distance, warehouses,
                   covered_cells, pool, optBudget, scored_cells,
                   selected_locations, remaining_budget, used_cells,
                   made_progress, iteration, idx, charged, val, vin, firstVal,
                   result>>

\* covered_cells.get(location.geoid): 0 when the geoid is not a key
CoveringOf(geoid) ==
    LET js == {j \in 1..Len(cells) : cells[j].geoid = geoid /\ covered_cells[j] # 0}
    IN  IF js = {} THEN 0
        ELSE covered_cells[CHOOSE j \in js : \A k \in js : k <= j]

\* variant: every cell of the filtered pool is linked, selected or not
LinkLoopAllViable(locs, whs) ==
    LET RECURSIVE Link(_, _)
        Link(k, ws) ==
            IF k > Len(pool) THEN ws
            ELSE LET w == CoveringOf(pool[k].geoid)
                 IN  Link(k + 1,
                         IF w # 0 /\ pool[k].geoid \notin Range(ws[w].food_banks_served)
                         THEN [ws EXCEPT ![w].food_banks_served = Append(@, pool[k].geoid)]
                         ELSE ws)
    IN  IF Len(locs) = 0 THEN whs ELSE Link(1, whs)

RECURSIVE LinkLoop(_, _)
LinkLoop(locs, whs) ==
    IF Len(locs) = 0 THEN whs
    ELSE LET w == CoveringOf(locs[1].geoid)
         IN  LinkLoop(Tail(locs),
                 IF w # 0 /\ locs[1].geoid \notin Range(whs[w].food_banks_served)
                 THEN [whs EXCEPT ![w].food_banks_served = Append(@, locs[1].geoid)]
                 ELSE whs)

LinkFoodBanks ==
    /\ pc = "link"
    /\ warehouses' = LinkLoop(optResult.locations, warehouses)
    /\ pc' = "validate_call"
    /\ UNCHANGED <<events, collection, statistics, entry, cells, budget, max_locations, min_distance,
                   covered_cells, pool, optBudget, scored_cells,
                   selected_locations, remaining_budget, used_cells,
                   made_progress, iteration, idx, charged, optResult, val, vin,
                   firstVal, result>>


(*********************** ValidationAgent.validate *************************)
ValidateCall ==
    /\ pc = "validate_call"
    /\ vin' = [locations |-> optResult.locations, warehouses |-> warehouses, pass |-> 1]
    /\ val' = StartVal(optResult.locations, warehouses)
    /\ pc' = "validate"
    /\ UNCHANGED <<events, collection, statistics, entry, cells, budget, max_locations, min_distance, warehouses,
                   covered_cells, pool, optBudget, scored_cells,
                   selected_locations, remaining_budget, used_cells,
                   made_progress, iteration, idx, charged, optResult, firstVal,
                   result>>

\* geoids of the cells within `radius` of the facility
CellsServed(pos, radius) ==
    {cells[j].geoid : j \in {k \in 1..Len(cells) : Distance(pos, cells[k].pos) <= radius}}

\* "Validate budget (use same calculation as optimization)": the cost the
\* validator charges, or -1 when the facility does not fit
ValidatedCost(facility, budget_used) ==
    LET cost12 == facility.setup_cost + SustainMonths * facility.operational_cost_monthly
        cost6 == facility.setup_cost + FallbackMonths * facility.operational_cost_monthly
    IN  IF budget_used + cost12 <= budget THEN cost12
        ELSE IF budget - budget_used > facility.setup_cost * 2
                /\ budget_used + cost6 <= budget
             THEN cost6
             ELSE -1

\* variant: a facility re-costed at the 6-month horizon counts as an adjustment
AdjustmentsCountFallback(facility, served, total_cost) ==
    (IF served = {} THEN 1 ELSE 0) + (IF total_cost < 0 THEN 1 ELSE 0)
    + (IF total_cost = facility.setup_cost
                       + FallbackMonths * facility.operational_cost_monthly
       THEN 1 ELSE 0)

\* adjustments_made is incremented once per failed test
Adjustments(facility, served, total_cost) ==
    (IF served = {} THEN 1 ELSE 0) + (IF total_cost < 0 THEN 1 ELSE 0)

\* body of `for location in locations`
ValidateLocation ==
    /\ pc = "validate"
    /\ val.phase = "locations"
    /\ LET location == vin.locations[val.i]
           served == CellsServed(location.pos, location.coverage_radius)
           total_cost == ValidatedCost(location, val.budget_used)
           valid == served # {} /\ total_cost >= 0
           last == val.i = Len(vin.locations)
       IN  val' = [val EXCEPT
                     !.covered_cells = @ \cup served,
                     !.adjustments_made = @ + Adjustments(location, served, total_cost),
                     !.validated_locations = IF valid THEN Append(@, location) ELSE @,
                     !.total_impact = IF valid THEN @ + location.expected_impact ELSE @,
                     !.budget_used = IF valid THEN @ + total_cost ELSE @,
                     !.charges = IF valid
                                 THEN Append(@, [tier |-> "food_bank", cost |-> total_cost])
                                 ELSE @,
                     !.i = IF last THEN 1 ELSE @ + 1,
                     !.phase = IF ~last THEN "locations"
                               ELSE IF Len(vin.warehouses) > 0 THEN "warehouses"
                               ELSE "return"]
    /\ UNCHANGED <<events, collection, statistics, entry, cells, budget, max_locations, min_distance, pc,
                   warehouses, covered_cells, pool, optBudget, scored_cells,
                   selected_locations, remaining_budget, used_cells,
                   made_progress, iteration, idx, charged, optResult, vin,
                   firstVal, result>>

\* body of `for warehouse in warehouses`; total_impact receives the cost
ValidateWarehouse ==
    /\ pc = "validate"
    /\ val.phase = "warehouses"
    /\ LET warehouse == vin.warehouses[val.i]
           served == CellsServed(warehouse.pos, warehouse.distribution_radius)
           total_cost == ValidatedCost(warehouse, val.budget_used)
           valid == served # {} /\ total_cost >= 0
           last == val.i = Len(vin.warehouses)
       IN  val' = [val EXCEPT
                     !.covered_cells = @ \cup served,
                     !.adjustments_made = @ + Adjustments(warehouse, served, total_cost),
                     !.validated_warehouses = IF valid THEN Append(@, warehouse) ELSE @,
                     !.total_impact = IF valid THEN @ + total_cost ELSE @,
                     !.budget_used = IF valid THEN @ + total_cost ELSE @,
                     !.charges = IF valid
                                 THEN Append(@, [tier |-> "warehouse", cost |-> total_cost])
                                 ELSE @,
                     !.i = IF last THEN 1 ELSE @ + 1,
                     !.phase = IF last THEN "return" ELSE "warehouses"]
    /\ UNCHANGED <<events, collection, statistics, entry, cells, budget, max_locations, min_distance, pc,
                   warehouses, covered_cells, pool, optBudget, scored_cells,
                   selected_locations, remaining_budget, used_cells,
                   made_progress, iteration, idx, charged, optResult, vin,
                   firstVal, result>>

ValidationResult ==
    [status |-> "returned",
     validated_locations |-> val.validated_locations,
     validated_warehouses |-> val.validated_warehouses,
     total_impact |-> val.total_impact,
     budget_used |-> val.budget_used,
     cells_covered |-> Cardinality(val.covered_cells),
     adjustments_made |-> val.adjustments_made,
     charges |-> val.charges]

\* step 4 of optimize_locations: the result compiled from the validation
SuccessResult(v) ==
    [status |-> "success",
     locations |-> v.validated_locations,
     warehouses |-> v.validated_warehouses,
     total_people_served |-> v.total_impact,
     total_budget_used |-> v.budget_used,
     cells_covered |-> v.cells_covered,
     iterations |-> optResult.iterations,
     validation_adjustments |-> v.adjustments_made]

\* validate returns; the caller of the first call compiles its result
ValidateReturn ==
    /\ pc = "validate"
    /\ val.phase = "return"
    /\ val' = [val EXCEPT !.phase = "returned"]
    /\ IF vin.pass = 1
       THEN /\ firstVal' = ValidationResult
            /\ result' = IF entry = "optimize_locations"
                         THEN SuccessResult(ValidationResult) ELSE result
            /\ pc' = "validated"
       ELSE /\ pc' = "done"
            /\ UNCHANGED <<firstVal, result>>
    /\ UNCHANGED <<events, collection, statistics, entry, cells, budget, max_locations, min_distance,
                   warehouses, covered_cells, pool, optBudget, scored_cells,
                   selected_locations, remaining_budget, used_cells,
                   made_progress, iteration, idx, charged, optResult, vin>>

\* the validator is run again on the facilities it returned
Revalidate ==
    /\ pc = "validated"
    /\ vin' = [locations |-> firstVal.validated_locations,
               warehouses |-> firstVal.validated_warehouses, pass |-> 2]
    /\ val' = StartVal(firstVal.validated_locations, firstVal.validated_warehouses)
    /\ pc' = "validate"
    /\ UNCHANGED <<events, collection, statistics, entry, cells, budget, max_locations, min_distance, warehouses,
                   covered_cells, pool, optBudget, scored_cells,
                   selected_locations, remaining_budget, used_cells,
                   made_progress, iteration, idx, charged, optResult, firstVal,
                   result>>

(******** StreamingLocationOptimizationAgent.optimize_locations ***********)
\* an update written by _send_update: its type, step and status
AgentStep(step, status) == [type |-> "agent_step", step |-> step, status |-> status]

\* _create_error_result of the streaming agent: optimization_metrics has the
\* single key 'error', whose value is the message
StreamErrorResult(error_message) ==
    [status |-> "error", locations |-> <<>>, warehouses |-> <<>>,
     total_people_served |-> 0, total_budget_used |-> 0,
     coverage_percentage |-> 0, optimization_metrics |-> {"error"},
     error |-> error_message]

\* the methods class WarehouseOptimizationAgent defines; an attribute lookup
\* of any other name on self.warehouse_optimizer raises AttributeError
WarehouseOptimizerMethods ==
    {"optimize_warehouses_first", "optimize", "_identify_warehouse_candidates",
     "_score_warehouse_candidates", "_select_optimal_warehouses",
     "_identify_strategic_warehouse_locations", "_score_strategic_warehouses",
     "_select_strategic_warehouses", "_calculate_strategic_coverage",
     "_calculate_coverage"}

\* the except handler: the error_handling update, then the error result; no
\* 'result' update is sent
StreamExcept(sent, message) ==
    /\ events' = Append(sent, AgentStep("error_handling", "error"))
    /\ result' = StreamErrorResult(message)

\* the initialization update; the run then sleeps min_step_duration
StreamStart ==
    /\ pc = "stream"
    /\ events' = <<AgentStep("initialization", "starting")>>
    /\ pc' = "data_collection"
    /\ UNCHANGED <<collection, statistics, entry, cells, budget, max_locations,
                   min_distance, warehouses, covered_cells, pool, optBudget,
                   scored_cells, selected_locations, remaining_budget,
                   used_cells, made_progress, iteration, idx, charged,
                   optResult, val, vin, firstVal, result>>

\* step 1: the in_progress update, up to the call of analyze_domain
StreamDataCollection ==
    /\ pc = "data_collection"
    /\ events' = Append(events, AgentStep("data_collection", "in_progress"))
    /\ pc' = "analyze"
    /\ UNCHANGED <<collection, statistics, entry, cells, budget, max_locations,
                   min_distance, warehouses, covered_cells, pool, optBudget,
                   scored_cells, selected_locations, remaining_budget,
                   used_cells, made_progress, iteration, idx, charged,
                   optResult, val, vin, firstVal, result>>

\* from the return of analyze_domain to the pause before step 2: the
\* completed update of step 1 reads statistics['total_cells'] (a KeyError on
\* the empty statistics of a missing collection, handled by the except
\* clause), and an empty cell list returns the error result without an update
StreamDataCollected ==
    /\ pc = "data_collected"
    /\ entry = "streaming_optimize_locations"
    /\ IF ~statistics.defined
       THEN /\ StreamExcept(events, "'total_cells'")
            /\ pc' = "done"
       ELSE /\ events' = Append(events, AgentStep("data_collection", "completed"))
            /\ IF Len(cells) = 0
               THEN /\ result' = StreamErrorResult("No data found for the specified domain")
                    /\ pc' = "done"
               ELSE /\ pc' = "warehouse_optimization"
                    /\ UNCHANGED result
    /\ UNCHANGED <<collection, statistics, entry, cells, budget, max_locations,
                   min_distance, warehouses, covered_cells, pool, optBudget,
                   scored_cells, selected_locations, remaining_budget,
                   used_cells, made_progress, iteration, idx, charged,
                   optResult, val, vin, firstVal>>

\* step 2: the in_progress update, then the lookup of
\* optimize_warehouses_simple on self.warehouse_optimizer, which raises
\* AttributeError before anything is awaited; the except clause ends the run
StreamWarehouseStep ==
    /\ pc = "warehouse_optimization"
    /\ "optimize_warehouses_simple" \notin WarehouseOptimizerMethods
    /\ StreamExcept(
           Append(events, AgentStep("warehouse_optimization", "in_progress")),
           "'WarehouseOptimizationAgent' object has no attribute 'optimize_warehouses_simple'")
    /\ pc' = "done"
    /\ UNCHANGED <<collection, statistics, entry, cells, budget, max_locations,
                   min_distance, warehouses, covered_cells, pool, optBudget,
                   scored_cells, selected_locations, remaining_budget,
                   used_cells, made_progress, iteration, idx, charged,
                   optResult, val, vin, firstVal>>

Next ==
    \/ StreamStart
    \/ StreamDataCollection
    \/ StreamDataCollected
    \/ StreamWarehouseStep
    \/ AnalyzeDomain
    \/ OptimizeLocationsStart
    \/ WithinWarehouseCoverage
    \/ ScoreCells
    \/ StartRound
    \/ Examine
    \/ OptimizeReturn
    \/ LinkFoodBanks
    \/ ValidateCall
    \/ ValidateLocation
    \/ ValidateWarehouse
    \/ ValidateReturn
    \/ Revalidate

Spec == Init /\ [][Next]_vars


(***************************** properties *********************************)
\* OptimizationAgent.optimize was entered (not the early return of the
\* coverage filter, nor the error return of optimize_locations)
OptimizeCalled ==
    /\ entry \in OptimizerEntries
    /\ pc \notin {"analyze", "start", "coverage", "score"}
    /\ result.status # "error"
    /\ ~(Len(warehouses) > 0 /\ pool = <<>>)

OptimizeReturned == OptimizeCalled /\ optResult.status = "returned"

Cost12(f) == f.setup_cost + SustainMonths * f.operational_cost_monthly

Cost6(f) == f.setup_cost + FallbackMonths * f.operational_cost_monthly

PairwiseApart(locs) ==
    \A j, k \in 1..Len(locs) :
        j # k => Distance(locs[j].pos, locs[k].pos) >= min_distance

\* C1: in every state of an optimize run, and in the list optimize returns,
\* any two distinct selected food banks are at least min_distance apart.
C1_MinDistance ==
    /\ PairwiseApart(selected_locations)
    /\ OptimizeReturned => PairwiseApart(optResult.locations)

\* optimize returned two or more food banks and left out a candidate that
\* lies closer than min_distance to one of them
C1_Witness ==
    /\ OptimizeReturned
    /\ Len(optResult.locations) >= 2
    /\ \E k \in 1..Len(scored_cells) :
          /\ k \notin used_cells
          /\ TooClose(scored_cells[k].cell, optResult.locations, min_distance)

\* C2: during an optimize run remaining_budget never goes below zero, every
\* cost charged (the 12-month or the 6-month cost of the facility) fitted the
\* budget left when it was charged, and budget - remaining_budget is the sum
\* of the costs charged so far.
C2_BudgetAccounting ==
    OptimizeCalled =>
        /\ remaining_budget >= 0
        /\ Len(charged) = Len(selected_locations)
        /\ optBudget - remaining_budget = SumSeq(charged)
        /\ \A j \in 1..Len(charged) :
              /\ charged[j] \in {Cost12(selected_locations[j]), Cost6(selected_locations[j])}
              /\ SumSeq(SubSeq(charged, 1, j)) <= optBudget

\* a run that charged one food bank 12 months and a later one 6 months
C2_Witness ==
    /\ OptimizeReturned
    /\ Len(charged) >= 2
    /\ charged[1] = Cost12(selected_locations[1])
    /\ charged[Len(charged)] = Cost6(selected_locations[Len(charged)])

RECURSIVE TierCharges(_, _)
TierCharges(charges, tier) ==
    IF Len(charges) = 0 THEN 0
    ELSE (IF charges[1].tier = tier THEN charges[1].cost ELSE 0)
         + TierCharges(Tail(charges), tier)

\* C3: after validate ran on the output of the pipeline, the costs it charged
\* sum to at most the budget, those of the food banks to at most 75% of it
\* and those of the warehouses to at most 25% of it.
C3_TierShares ==
    (entry = "optimize_locations" /\ firstVal.status = "returned") =>
        /\ TierCharges(firstVal.charges, "food_bank")
             + TierCharges(firstVal.charges, "warehouse") <= budget
        /\ 4 * TierCharges(firstVal.charges, "food_bank") <= 3 * budget
        /\ 4 * TierCharges(firstVal.charges, "warehouse") <= budget

\* C4: in the result of a pipeline run no cell anchors two facilities: the
\* food banks sit on distinct cells, the warehouses on distinct cells, and no
\* warehouse shares its cell with a food bank.
C4_DistinctAnchors ==
    (entry = "optimize_locations" /\ result.status = "success") =>
        /\ \A j, k \in 1..Len(result.locations) :
              j # k => result.locations[j].geoid # result.locations[k].geoid
        /\ \A j, k \in 1..Len(result.warehouses) :
              j # k => result.warehouses[j].geoid.cell # result.warehouses[k].geoid.cell
        /\ \A j \in 1..Len(result.locations), k \in 1..Len(result.warehouses) :
              result.locations[j].geoid # result.warehouses[k].geoid.cell

InsideSomeWarehouse(loc) ==
    \E w \in 1..Len(warehouses) :
        Distance(warehouses[w].pos, loc.pos) <= warehouses[w].distribution_radius

\* C5: with a non-empty warehouse list, every food bank selected or returned
\* by optimize_within_warehouse_coverage lies within the distribution radius
\* of at least one of the warehouses.
C5_InsideCoverage ==
    (entry \in OptimizerEntries /\ Len(warehouses) > 0) =>
        /\ \A j \in 1..Len(selected_locations) : InsideSomeWarehouse(selected_locations[j])
        /\ optResult.status = "returned" =>
              \A j \in 1..Len(optResult.locations) : InsideSomeWarehouse(optResult.locations[j])

\* food banks were returned although some cell of the pool is outside every
\* warehouse's radius
C5_Witness ==
    /\ entry \in OptimizerEntries
    /\ Len(warehouses) > 0
    /\ optResult.status = "returned"
    /\ Len(optResult.locations) > 0
    /\ \E j \in 1..Len(cells) : ~InsideSomeWarehouse(cells[j])

\* C6: validate is idempotent: run again on the two lists it returned, with
\* the same cells and budget, it makes no adjustment and returns the same two
\* lists in the same order.
C6_Idempotent ==
    (pc = "done" /\ vin.pass = 2) =>
        /\ val.adjustments_made = 0
        /\ val.validated_locations = firstVal.validated_locations
        /\ val.validated_warehouses = firstVal.validated_warehouses

\* the second call returned after a first call that dropped a facility,
\* kept another, and charged a kept one at the 6-month horizon
C6_Witness ==
    /\ pc = "done"
    /\ vin.pass = 2
    /\ firstVal.adjustments_made > 0
    /\ Len(firstVal.validated_locations) + Len(firstVal.validated_warehouses) > 0
    /\ \E j \in 1..Len(firstVal.validated_locations) :
          firstVal.charges[j].cost = Cost6(firstVal.validated_locations[j])

CheapestSetup ==
    CHOOSE m \in {scored_cells[k].setup_cost : k \in 1..Len(scored_cells)} :
        \A k \in 1..Len(scored_cells) : m <= scored_cells[k].setup_cost

\* C7: optimize called with no cells, with budget 0, or with a budget below
\* the setup cost of its cheapest candidate returns no location and reports
\* the whole budget as remaining.
C7_NothingAffordable ==
    (/\ OptimizeReturned
     /\ \/ pool = <<>>
        \/ optBudget = 0
        \/ (scored_cells # <<>> /\ optBudget < CheapestSetup)) =>
        /\ optResult.locations = <<>>
        /\ optResult.budget_remaining = optBudget

\* a run that went through a selection round over a non-empty candidate list
\* with a positive budget below the cheapest setup cost
C7_Witness ==
    /\ OptimizeReturned
    /\ scored_cells # <<>>
    /\ optBudget > 0
    /\ optBudget < CheapestSetup
    /\ optResult.iterations = 1

\* C8 as stated: a budget equal to a candidate's 6-month cost and below its
\* 12-month cost makes optimize select that candidate at the 6-month cost,
\* and validate with the same budget keeps it without any adjustment.
C8_ExactSixMonthBudget ==
    (entry = "optimize_within_warehouse_coverage" /\ pc = "done" /\ OptimizeCalled) =>
        \A k \in 1..Len(scored_cells) :
            (/\ optBudget = CandidateCost(scored_cells[k], FallbackMonths)
             /\ optBudget < CandidateCost(scored_cells[k], SustainMonths)) =>
                /\ \E j \in 1..Len(selected_locations) :
                      /\ selected_locations[j] = FoodBankLocation(scored_cells[k])
                      /\ charged[j] = CandidateCost(scored_cells[k], FallbackMonths)
                /\ FoodBankLocation(scored_cells[k]) \in Range(firstVal.validated_locations)
                /\ firstVal.adjustments_made = 0

\* the budget is below the 12-month cost of the first-ranked candidate but
\* above twice its setup cost and above the round floor
FallbackWindow ==
    /\ entry = "optimize_within_warehouse_coverage"
    /\ OptimizeCalled
    /\ max_locations >= 1
    /\ scored_cells # <<>>
    /\ optBudget < CandidateCost(scored_cells[1], SustainMonths)
    /\ optBudget > 2 * scored_cells[1].setup_cost
    /\ optBudget > MinRoundBudget

\* C8 amended: with a budget in the fallback window of the first-ranked
\* candidate, optimize selects it at the 6-month cost and validate, given the
\* same budget, keeps it at the 6-month cost, with no adjustment when there
\* is no other facility; a candidate whose 6-month cost equals the budget is
\* not selected.
C8_FallbackSelection ==
    /\ (FallbackWindow /\ pc = "done") =>
          /\ Len(selected_locations) = 1
          /\ selected_locations[1] = FoodBankLocation(scored_cells[1])
          /\ charged[1] = CandidateCost(scored_cells[1], FallbackMonths)
          /\ firstVal.validated_locations = selected_locations
          /\ firstVal.charges[1] =
                [tier |-> "food_bank",
                 cost |-> CandidateCost(scored_cells[1], FallbackMonths)]
          /\ Len(warehouses) = 0 => firstVal.adjustments_made = 0
    /\ (OptimizeCalled /\ entry = "optimize_within_warehouse_coverage") =>
          \A k \in 1..Len(scored_cells) :
              optBudget = CandidateCost(scored_cells[k], FallbackMonths) =>
                  k \notin used_cells

\* both validate calls returned for a run whose budget was in the window
C8_Witness ==
    /\ FallbackWindow
    /\ pc = "done"
    /\ Len(warehouses) = 0
    /\ firstVal.adjustments_made = 0

\* a single warehouse whose radius is smaller than its distance to every cell
NothingCovered ==
    /\ entry = "optimize_within_warehouse_coverage"
    /\ pc \notin {"analyze", "start", "coverage"}
    /\ Len(warehouses) = 1
    /\ Len(cells) > 0
    /\ \A j \in 1..Len(cells) :
          Distance(warehouses[1].pos, cells[j].pos) > warehouses[1].distribution_radius

\* C9 as stated: optimisation then falls back to the full cell list.
C9_FallbackToFullPool == NothingCovered => pool = cells

\* C9 amended: optimize_within_warehouse_coverage then returns at once, without
\* running optimize: no location, iterations 0, the whole budget remaining.
C9_EmptyResult ==
    NothingCovered =>
        /\ pool = <<>>
        /\ scored_cells = <<>>
        /\ iteration = 0
        /\ optResult = [status |-> "returned", locations |-> <<>>,
                        iterations |-> 0, budget_remaining |-> budget]

\* the early return was taken with a positive budget
C9_Witness == NothingCovered /\ pc = "done" /\ budget > 0

\* C10: with an empty warehouse list optimize_within_warehouse_coverage hands
\* optimize the full cell list and its own budget, links nothing, and returns
\* optimize's result unchanged.
C10_NoWarehouses ==
    (entry \in OptimizerEntries /\ Len(warehouses) = 0 /\ pc \notin {"analyze", "start", "coverage"}
        /\ result.status # "error") =>
        /\ pool = cells
        /\ optBudget = FoodBankBudget
        /\ covered_cells = [j \in 1..Len(cells) |-> 0]
        /\ optResult.status = "returned" =>
              optResult = [status |-> "returned",
                           locations |-> selected_locations,
                           iterations |-> iteration,
                           budget_remaining |-> remaining_budget]

\* optimize selected food banks from a non-empty cell list without warehouses
C10_Witness ==
    /\ entry \in OptimizerEntries
    /\ Len(warehouses) = 0
    /\ optResult.status = "returned"
    /\ Len(cells) > 1
    /\ Len(optResult.locations) > 0

\* every two candidates of the scored pool are closer than min_distance
AllMutuallyClose ==
    \A j, k \in 1..Len(scored_cells) :
        Distance(scored_cells[j].cell.pos, scored_cells[k].cell.pos) < min_distance

\* the allocator's cost test admits some candidate against the whole budget
AffordsSomeCandidate ==
    \E k \in 1..Len(scored_cells) :
        TotalCost(scored_cells[k], optBudget, optBudget) >= 0

\* C11: when the scored pool is non-empty, max_locations >= 1, every two
\* candidates are closer than min_distance and the budget admits at least one
\* candidate, optimize returns exactly one food bank, whatever the number of
\* rounds it ran.
C11_SingleFacility ==
    (OptimizeReturned /\ Len(scored_cells) > 0 /\ max_locations >= 1
        /\ AllMutuallyClose /\ AffordsSomeCandidate) =>
        Len(optResult.locations) = 1

\* several mutually close candidates, budget for more than one of them, and
\* optimize returned after a second round that added nothing
C11_Witness ==
    /\ OptimizeReturned
    /\ Len(scored_cells) >= 3
    /\ AllMutuallyClose
    /\ AffordsSomeCandidate
    /\ optResult.budget_remaining >= CandidateCost(scored_cells[2], SustainMonths)
    /\ optResult.iterations = 2
    /\ Len(optResult.locations) = 1

\* the scored candidate of the cell with this geoid
CandidateOf(geoid) ==
    ScoreCell(cells[CHOOSE k \in 1..Len(cells) : cells[k].geoid = geoid])

SelectedGeoids == {optResult.locations[j].geoid : j \in 1..Len(optResult.locations)}

\* the budget pays for cell A's food bank but not for two 12-month food banks
BudgetForExactlyOne ==
    /\ TotalCost(CandidateOf(1), budget, budget) >= 0
    /\ \A g \in 2..4 :
          budget < CandidateCost(CandidateOf(1), SustainMonths)
                     + CandidateCost(CandidateOf(g), SustainMonths)

\* C12: on the four cells A, B, C, D (populations 1000, 1000, 10, 10, equal
\* risk factors except poverty 0.5 in A and 0.0 in D), with min_distance above
\* the A-B separation and a budget for exactly one food bank, optimize
\* selects A and does not select B.
C12_SelectsANotB ==
    (OptimizeReturned /\ cells \in ScenarioCellLists /\ BudgetForExactlyOne
        /\ max_locations >= 1 /\ min_distance > Distance(0, 2)) =>
        /\ 1 \in SelectedGeoids
        /\ 2 \notin SelectedGeoids

\* the scenario ran with B listed before A and optimize returned A alone
C12_Witness ==
    /\ OptimizeReturned
    /\ cells \in ScenarioCellLists
    /\ cells[1].geoid = 2
    /\ BudgetForExactlyOne
    /\ SelectedGeoids = {1}

\* geoids of the cells within the radius of a facility the validation kept
SurvivorCoverage(v) ==
    UNION {CellsServed(v.validated_locations[j].pos,
                       v.validated_locations[j].coverage_radius) :
               j \in 1..Len(v.validated_locations)}
    \cup
    UNION {CellsServed(v.validated_warehouses[j].pos,
                       v.validated_warehouses[j].distribution_radius) :
               j \in 1..Len(v.validated_warehouses)}

\* C13: the coverage validate returns (cells_covered, over the number of all
\* cells) counts exactly the cells within the radius of at least one facility
\* that survived validation; cells covered only by dropped facilities are not
\* counted.
C13_CoverageOfSurvivors ==
    firstVal.status = "returned" =>
        firstVal.cells_covered = Cardinality(SurvivorCoverage(firstVal))

\* C14: after validate, every kept facility serves a cell, the kept
\* facilities fit the budget, and adjustments_made equals the number of
\* facilities dropped (facilities handed in minus facilities kept).
C14_AdjustmentsCountDropped ==
    (pc = "validated" /\ vin.pass = 1) =>
        /\ SurvivorCoverage(firstVal) # {}
              \/ Len(firstVal.validated_locations) + Len(firstVal.validated_warehouses) = 0
        /\ \A j \in 1..Len(firstVal.validated_locations) :
              CellsServed(firstVal.validated_locations[j].pos,
                          firstVal.validated_locations[j].coverage_radius) # {}
        /\ \A j \in 1..Len(firstVal.validated_warehouses) :
              CellsServed(firstVal.validated_warehouses[j].pos,
                          firstVal.validated_warehouses[j].distribution_radius) # {}
        /\ firstVal.budget_used <= budget
        /\ firstVal.adjustments_made =
              Len(vin.locations) + Len(vin.warehouses)
              - Len(firstVal.validated_locations) - Len(firstVal.validated_warehouses)

\* C15: optimize_locations ends with status 'success' or 'error', and every
\* result with status 'error' carries a reason (the 'error' key of
\* optimization_metrics).
C15_ErrorCarriesReason ==
    (entry = "optimize_locations" /\ pc \in {"validated", "done"}) =>
        /\ result.status \in {"success", "error"}
        /\ result.status = "error" => "error" \in result.optimization_metrics

\* C16 as stated: a run without candidate cells ends with an empty facility
\* list, no budget used, zero coverage, and is not reported as an error.
C16_NotReportedAsError ==
    (entry = "optimize_locations" /\ Len(cells) = 0 /\ pc = "done") =>
        /\ result.status = "success"
        /\ result.locations = <<>>
        /\ result.warehouses = <<>>
        /\ result.total_budget_used = 0

\* C16: a run whose analysis yields no cells ends at once, without running
\* another sub-agent, with status 'error', empty facility lists, no people
\* served, no budget used, zero coverage and empty metrics.
C16_EmptyDomainResult ==
    (entry = "optimize_locations" /\ pc # "analyze" /\ Len(cells) = 0) =>
        /\ pc \in {"start", "done"}
        /\ optResult = NoResult /\ firstVal = NoResult /\ warehouses = <<>>
        /\ pc = "done" =>
              /\ result.status = "error"
              /\ result.locations = <<>>
              /\ result.warehouses = <<>>
              /\ result.total_people_served = 0
              /\ result.total_budget_used = 0
              /\ result.coverage_percentage = 0
              /\ result.optimization_metrics = {}

\* optimize_locations returned for an empty cell list and a positive budget
C16_Witness ==
    /\ entry = "optimize_locations"
    /\ Len(cells) = 0
    /\ budget > 0
    /\ pc = "done"
    /\ result.status = "error"

\* a block that analyze_domain can turn into a cell: all keys present,
\* well-formed coordinates, positive population
ValidPopulated(block) ==
    /\ block.properties = "full"
    /\ block.geometry = "polygon"
    /\ block.pop > 0

\* C17: a defective block (malformed centroid, or a missing required field
\* such as properties or geoid) makes analyze_domain skip that block only:
\* every valid populated block, also of the same chunk, is in the cell list
\* analyze_domain returns.
C17_OnlyDefectiveSkipped ==
    (entry = "analyze_domain" /\ pc = "done" /\ collection.exists) =>
        /\ statistics.defined
        /\ \A i \in 1..Len(collection.blocks) :
              ValidPopulated(collection.blocks[i]) =>
                  \E j \in 1..Len(cells) : cells[j] = BlockCell(collection.blocks[i])

\* C18: the ranked candidate list is a function of the input cells alone:
\* descending efficiency, candidates of equal efficiency in ascending order of
\* cell id, whatever the order in which the scoring chunks completed (and so
\* the selection made from it is the same for every completion order).
C18_RankedByEfficiencyThenId ==
    entry \in OptimizerEntries =>
        \A j, k \in 1..Len(scored_cells) :
            j < k =>
                \/ scored_cells[j].efficiency > scored_cells[k].efficiency
                \/ /\ scored_cells[j].efficiency = scored_cells[k].efficiency
                   /\ scored_cells[j].cell.geoid < scored_cells[k].cell.geoid

\* the facility the running validate call examines next
UnderValidation ==
    IF val.phase = "locations" THEN vin.locations[val.i] ELSE vin.warehouses[val.i]

\* the allocator's cost rule (12 months, else the guarded 6 months, else
\* -1 for a rejection) applied to a facility's costs
AllocatorRule(facility, remaining, original) ==
    IF Cost12(facility) <= remaining THEN Cost12(facility)
    ELSE IF /\ remaining > 2 * facility.setup_cost
            /\ 10 * remaining > original
            /\ Cost6(facility) <= remaining
         THEN Cost6(facility)
         ELSE -1

\* C19: for every facility validate examines, with the budget used so far,
\* validate takes the decision and horizon of the allocator's rule applied to
\* remaining = budget - used: 12 months if that fits; else 6 months only if
\* remaining > 2 * setup_cost and remaining > 10% of the original budget and
\* the 6-month cost fits; else the facility is rejected.
C19_SameRuleAsAllocator ==
    (pc = "validate" /\ val.phase \in {"locations", "warehouses"}) =>
        ValidatedCost(UnderValidation, val.budget_used) =
            AllocatorRule(UnderValidation, budget - val.budget_used, budget)

\* the 12-month cost of all warehouses handed to validate
WarehousesCost12 ==
    SumSeq([j \in 1..Len(vin.warehouses) |-> Cost12(vin.warehouses[j])])

\* C20: validate charges the warehouses before the food banks: no warehouse
\* is charged after a food bank, and warehouses that serve cells and fit the
\* budget among themselves are all kept, so that when the combined cost
\* exceeds the budget the facilities dropped are food banks.
C20_WarehousesChargedFirst ==
    /\ \A j, k \in 1..Len(val.charges) :
          j < k => ~(val.charges[j].tier = "food_bank" /\ val.charges[k].tier = "warehouse")
    /\ (pc = "validated" /\ vin.pass = 1 /\ WarehousesCost12 <= budget
           /\ \A j \in 1..Len(vin.warehouses) :
                 CellsServed(vin.warehouses[j].pos,
                             vin.warehouses[j].distribution_radius) # {}) =>
          firstVal.validated_warehouses = vin.warehouses

\* optimize_within_warehouse_coverage returned from a call with warehouses
CoverageReturned ==
    /\ entry \in OptimizerEntries
    /\ Len(warehouses) > 0
    /\ optResult.status = "returned"
    /\ pc # "link"

Covers(w, loc) ==
    Distance(warehouses[w].pos, loc.pos) <= warehouses[w].distribution_radius

Lists(w, loc) == loc.geoid \in Range(warehouses[w].food_banks_served)

\* C21 as stated: a warehouse lists a selected food bank if and only if the
\* food bank's anchor cell lies within the warehouse's distribution radius.
C21_ListsAllInsideRadius ==
    CoverageReturned =>
        \A w \in 1..Len(warehouses) : \A j \in 1..Len(optResult.locations) :
            Lists(w, optResult.locations[j]) <=> Covers(w, optResult.locations[j])

\* the warehouse a selected food bank is associated with: the first of the
\* highest capacity among the warehouses covering it
Associated(w, loc) ==
    /\ Covers(w, loc)
    /\ \A k \in 1..Len(warehouses) :
          Covers(k, loc) =>
              \/ warehouses[k].capacity < warehouses[w].capacity
              \/ (warehouses[k].capacity = warehouses[w].capacity /\ k >= w)

\* the ids the link loop is to append to the list of warehouse w: the selected
\* food banks associated with w that the list does not hold yet
NewlyServed(w) ==
    LET mine == SelectSeq(optResult.locations,
                          LAMBDA loc : /\ Associated(w, loc)
                                       /\ loc.geoid \notin
                                              Range(warehouses[w].food_banks_served))
    IN  [j \in 1..Len(mine) |-> mine[j].geoid]

\* C21: the call adds every selected food bank to the list of exactly one
\* warehouse, the first of the highest capacity among the warehouses covering
\* it, unless that list holds its id already; it adds nothing else to a list
\* and removes nothing, so a warehouse does not come to list a food bank
\* inside its radius that is associated with another warehouse.
C21_LinkedToOneCoveringWarehouse ==
    [][(pc = "link" /\ pc' # "link") =>
          \A w \in 1..Len(warehouses) :
              warehouses'[w].food_banks_served =
                  warehouses[w].food_banks_served \o NewlyServed(w)]_vars

\* a selected food bank inside the radius of two warehouses was added to the
\* list of the second, larger one, and not to the list of the first
C21_Witness ==
    /\ CoverageReturned
    /\ Len(warehouses) = 2
    /\ warehouses[1].food_banks_served = <<1>>
    /\ Len(warehouses[2].food_banks_served) = 3
    /\ \E j \in 1..Len(optResult.locations) :
          /\ Covers(1, optResult.locations[j])
          /\ Covers(2, optResult.locations[j])
          /\ warehouses[2].food_banks_served[3] = optResult.locations[j].geoid

\* a candidate not yet used that the current state would still reject for
\* distance or for cost
SkippedCandidate(k) ==
    /\ k \notin used_cells
    /\ \/ TooClose(scored_cells[k].cell, selected_locations, min_distance)
       \/ TotalCost(scored_cells[k], remaining_budget, optBudget) < 0

\* C22: rounds after the first can add facilities: when a later round of
\* optimize has ended, it has selected a candidate (one that an earlier
\* round skipped for distance or budget).
C22_LaterRoundAdds ==
    (OptimizeCalled /\ pc = "while" /\ iteration >= 2) => made_progress

\* what the loop does instead: a round after the first never selects
\* anything, and every candidate left unused is still rejected
LaterRoundsIdle ==
    (OptimizeCalled /\ iteration >= 2) =>
        /\ ~made_progress
        /\ pc = "while" =>
              \A k \in 1..Len(scored_cells) :
                  k \in used_cells \/ SkippedCandidate(k)
                    \/ Len(selected_locations) >= max_locations

\* C23: a further round is started only if the previous round added a food
\* bank, so round r has at least r - 1 food banks selected before it, the
\* number of selected food banks is at most the number n of candidates, and
\* the round counter, also the iterations reported, never exceeds n + 1.
C23_RoundsBounded ==
    OptimizeCalled =>
        /\ Len(selected_locations) >= iteration - 1
        /\ Len(selected_locations) <= Len(scored_cells)
        /\ iteration <= Len(scored_cells) + 1
        /\ optResult.status = "returned" =>
              optResult.iterations <= Len(scored_cells) + 1

\* optimize returned after a second round that added nothing, with budget
\* above the floor and the cap not reached: the run ended for lack of progress
C23_Witness ==
    /\ OptimizeReturned
    /\ Len(scored_cells) >= 2
    /\ optResult.iterations = 2
    /\ ~made_progress
    /\ optResult.budget_remaining > MinRoundBudget
    /\ Len(optResult.locations) < max_locations

\* C24 as stated: no round is started once remaining_budget is below 10% of
\* the budget optimize was called with.
C24_FloorIsTenthOfBudget ==
    (OptimizeCalled /\ pc = "for" /\ idx = 1) => 10 * remaining_budget >= optBudget

\* C24: a round is started only while remaining_budget is above the fixed
\* amount of 50000, whatever the budget optimize was called with.
C24_FixedFloor ==
    (OptimizeCalled /\ pc = "for" /\ idx = 1) => remaining_budget > MinRoundBudget

\* a second round was started with less than 10% of the budget left
C24_Witness ==
    /\ OptimizeCalled
    /\ pc = "for"
    /\ idx = 1
    /\ iteration = 2
    /\ 10 * remaining_budget < optBudget

\* declustering grid: the bounding box of the candidate cells cut into 6
\* equal zones along the meridian all cells lie on
CandidatePositions == {scored_cells[k].cell.pos : k \in 1..Len(scored_cells)}

ZoneOf(pos) ==
    LET lo == CHOOSE a \in CandidatePositions : \A b \in CandidatePositions : a <= b
        hi == CHOOSE a \in CandidatePositions : \A b \in CandidatePositions : a >= b
    IN  IF hi = lo THEN 0
        ELSE Min(5, ((pos - lo) * 6) \div (hi - lo))

ZoneOccupancy(z) ==
    Cardinality({j \in 1..Len(selected_locations) : ZoneOf(selected_locations[j].pos) = z})

\* C25: during a food-bank run, while fewer than 12 food banks are selected,
\* no zone of the 6 x 6 grid over the candidate cells holds more than 2
\* selected food banks (zone capacity 1, exceedable by one).
C25_ZoneCapacity ==
    (OptimizeCalled /\ Len(scored_cells) > 0 /\ Len(selected_locations) < 12) =>
        \A z \in 0..5 : ZoneOccupancy(z) <= 2

\* C26: every candidate the scorer yields comes from a cell with population
\* above zero; its expected impact is min(0.4 * need, 0.3 * population), at
\* most the cell's need and at most its population; its setup cost lies in
\* [80000, 250000] and its monthly operational cost in [8000, 25000]; and
\* every cell with population above zero, and no other, yields a candidate.
C26_ScorerBounds ==
    (OptimizeCalled /\ \A j \in 1..Len(pool) : pool[j].need >= 0) =>
        /\ \A k \in 1..Len(scored_cells) :
              LET c == scored_cells[k]
              IN  /\ c.cell.population > 0
                  /\ c.impact10 = Min(4 * c.cell.need, 3 * c.cell.population)
                  /\ c.impact10 >= 0
                  /\ c.impact10 <= 10 * c.cell.need
                  /\ c.impact10 <= 10 * c.cell.population
                  /\ c.setup_cost >= 80000 /\ c.setup_cost <= 250000
                  /\ c.operational_cost >= 8000 /\ c.operational_cost <= 25000
        /\ {scored_cells[k].cell : k \in 1..Len(scored_cells)}
              = {pool[j] : j \in {i \in 1..Len(pool) : pool[i].population > 0}}
        /\ Len(scored_cells) = Cardinality({i \in 1..Len(pool) : pool[i].population > 0})

\* a cell without population was dropped and a cell of extreme need was
\* scored at both cost caps
C26_Witness ==
    /\ OptimizeCalled
    /\ \E j \in 1..Len(pool) : pool[j].population = 0 /\ pool[j].need > 0
    /\ \E k \in 1..Len(scored_cells) :
          /\ 5 * scored_cells[k].impact10 > 170000
          /\ scored_cells[k].setup_cost = 250000
          /\ scored_cells[k].operational_cost = 25000

\* optimize_locations returned its result compiled from the validation
PipelineSucceeded == entry = "optimize_locations" /\ result.status = "success"

\* C27: in the final result of optimize_locations, whenever a warehouse was
\* allocated, every food bank of result.locations is anchored within the
\* distribution radius of at least one warehouse of result.warehouses.
C27_FoodBanksKeepAWarehouse ==
    (PipelineSucceeded /\ Len(warehouses) > 0) =>
        \A j \in 1..Len(result.locations) :
            \E w \in 1..Len(result.warehouses) :
                Distance(result.warehouses[w].pos, result.locations[j].pos)
                    <= result.warehouses[w].distribution_radius

\* C28: in the final result of optimize_locations, every id in a returned
\* warehouse's food_banks_served is the geoid of a food bank of
\* result.locations and occurs once in that list.
C28_ServedIdsAreReturned ==
    PipelineSucceeded =>
        \A w \in 1..Len(result.warehouses) :
            LET served == result.warehouses[w].food_banks_served
            IN  /\ \A a \in 1..Len(served) :
                      \E j \in 1..Len(result.locations) :
                          result.locations[j].geoid = served[a]
                /\ \A a, b \in 1..Len(served) : a # b => served[a] # served[b]

\* a returned warehouse lists two food banks while other cells of its
\* coverage were not selected
C28_Witness ==
    /\ PipelineSucceeded
    /\ Len(result.warehouses) > 0
    /\ Len(result.warehouses[1].food_banks_served) = 2
    /\ Len(pool) > 2

\* C29: total_people_served of the final result is the sum of
\* expected_impact over the food banks validation kept; no cost amount and no
\* dropped facility enters it.
C29_PeopleServed ==
    PipelineSucceeded =>
        result.total_people_served =
            SumSeq([j \in 1..Len(result.locations) |-> result.locations[j].expected_impact])

\* the steps of the agent_step updates sent so far, in order
StepsSent ==
    [k \in 1..Len(events) |->
        IF events[k].type = "agent_step" THEN events[k].step ELSE "result"]

ResultUpdates == {k \in 1..Len(events) : events[k].type = "result"}

ErrorUpdates ==
    {k \in 1..Len(events) : events[k].type = "agent_step" /\ events[k].status = "error"}

\* a call of _process_blocks_chunk raised during the analysis of the domain
SubAgentFailed ==
    \/ ~collection.exists
    \/ \E k \in 1..Len(collection.blocks) :
          \/ collection.blocks[k].properties # "full"
          \/ collection.blocks[k].geometry = "absent"

StreamReturned == entry = "streaming_optimize_locations" /\ pc = "done"

\* C30: a streamed run on a domain with at least one cell sends its updates
\* in the order initialization, data_collection, warehouse_optimization,
\* foodbank_optimization, feasibility_validation, finalization, ends with
\* exactly one 'result' update whose status is 'success', and sends an
\* 'error' update only if a sub-agent computation failed
C30_StreamEndsWithSuccess ==
    (StreamReturned /\ Len(cells) >= 1) =>
        /\ StepsSent = <<"initialization", "data_collection", "data_collection",
                         "warehouse_optimization", "warehouse_optimization",
                         "foodbank_optimization", "foodbank_optimization",
                         "feasibility_validation", "feasibility_validation",
                         "finalization", "result">>
        /\ Cardinality(ResultUpdates) = 1
        /\ events[Len(events)].type = "result"
        /\ events[Len(events)].status = "success"
        /\ result.status = "success"
        /\ (ErrorUpdates # {} => SubAgentFailed)

\* what the streamed run does on every domain with at least one cell: it stops
\* in step 2 with the error_handling update and returns the error result
StreamStopsInWarehouseStep ==
    (StreamReturned /\ Len(cells) >= 1) =>
        /\ StepsSent = <<"initialization", "data_collection", "data_collection",
                         "warehouse_optimization", "error_handling">>
        /\ ResultUpdates = {}
        /\ Cardinality(ErrorUpdates) = 1
        /\ result.status = "error"

====
